---- MODULE Spec2Model ----
(***************************************************************************)
(* Model of the intrinsic-feature and average-response-fit pipeline        *)
(* modules:                                                                *)
(*   src/aisynphys/pipeline/multipatch/intrinsic.py                        *)
(*   src/multipatch_analysis/pipeline/multipatch/avg_response_fit.py       *)
(*                                                                         *)
(* The feature library (ipfx) is a black box: each call into it either     *)
(* returns or raises, and which of the two happens is chosen by the        *)
(* environment.  Feature values are abstracted to the names of the keys    *)
(* of the returned mapping; error strings are abstracted to their format   *)
(* string plus the cell id.                                                *)
(***************************************************************************)
EXTENDS Integers, Sequences, FiniteSets, TLC

\* ------------------------------------------------------------------ bounds
\* longest recording list handed to one extractor
MaxRecs == 3
\* cells of the experiment a job processes
NCells == 2
\* pairs of the experiment a job processes
NPairs == 2
\* longest recording list of one protocol of a cell of a job
MaxJobRecs == 1

\* np.inf, the initial value of min_pulse_dur (larger than any duration)
np_inf == 1000

\* ------------------------------------------------------- recordings (input)
\* get_pulse_times(rec) gives None (modelled as <<>>) or (start, end)
NoPulse == <<>>
PulseWindows == {<<0, 1>>, <<0, 2>>, <<1, 2>>}

\* A recording as far as the module reads it: its pulse window, and whether
\* rec.stimulus.items holds an item described 'holding current'.
Recordings == [pulse_times : {NoPulse} \cup PulseWindows, has_holding : BOOLEAN]
ChirpRecordings == [pulse_times : {NoPulse}, has_holding : BOOLEAN]

SeqsUpTo(S, n) == UNION {[1..k -> S] : k \in 0..n}

\* Python's None, as the value the extractors compare a sweep against
None == [none |-> TRUE]

get_pulse_times(rec) == rec.pulse_times

\* ------------------------------------------------------------ MPSweep
\* MPSweep(rec, t0): the object the constructor call evaluates to.  __init__
\* returns early, before Sweep.__init__, when no 'holding current' item
\* exists: the call still evaluates to the (uninitialised) instance.
\* An initialised sweep carries the start time t0 given to its time base.
MPSweep(rec, t0) ==
  IF ~rec.has_holding
    THEN [initialized |-> FALSE, rec |-> rec]
    ELSE [initialized |-> TRUE, rec |-> rec, t0 |-> t0]

\* time of the pulse onset on the sweep's time base (the recording's own
\* time base starts at 0, copy(t0=t0) makes it start at t0)
PulseOnset(sweep) == sweep.rec.pulse_times[1] + sweep.t0

Min(a, b) == IF a < b THEN a ELSE b

\* ------------------------------------------------------------ error strings
Err(msg, cell_id) == [msg |-> msg, cell_id |-> cell_id]

MentionsPassedQc(e) ==
  e.msg \in {"No long square sweeps passed qc for cell %s",
             "No chirp sweeps passed qc for cell %s"}

\* ------------------------------------------------------------ feature keys
LongSquareKeys ==
  {"avg_firing_rate", "rheobase", "fi_slope", "input_resistance",
   "input_resistance_ss", "sag", "adaptation_index",
   "upstroke_downstroke_ratio", "upstroke", "downstroke", "width",
   "threshold_v", "peak_deltav", "fast_trough_deltav", "isi_adapt_ratio",
   "upstroke_adapt_ratio", "downstroke_adapt_ratio", "width_adapt_ratio",
   "threshold_v_adapt_ratio"}

ChirpKeys ==
  {"chirp_peak_freq", "chirp_3db_freq", "chirp_peak_ratio",
   "chirp_peak_impedance", "chirp_sync_freq", "chirp_inductive_phase"}

\* ------------------------------------------------------------ the library
\* What the feature library does during one long-square extraction: "ok", or
\* the step that raises.
LibLS == {"ok", "extractors", "analyze_FeatureError", "analyze_Exception",
          "as_dict", "complete_features", "avg_rate", "output_key"}
\* What it does during one chirp extraction.
LibChirp == {"ok", "fft_FeatureError", "fft_Exception", "output_key"}
\* marks a call that never reached the library
NotCalled == "not called"

\* What a call of an extractor gives its caller: the returned pair
\* (results, errors), or an exception that leaves the call (raised).  The
\* remaining fields record what the call did on the way.
Outcome(results, errors, raised, sweep_list, window, lib) ==
  [results |-> results, errors |-> errors, raised |-> raised,
   sweep_list |-> sweep_list, window |-> window, lib |-> lib]

\* no analysis window was set up
NoWindow == <<>>
\* ------------------------------------------------- get_long_square_features
\* len(recordings) == 0, the first test of both extractors
NoRecordings_never(recordings) == FALSE
NoRecordings(recordings) == Len(recordings) = 0

\* the message for a long-square sweep list left empty by the loop
LongSquareQcError_copied(cell_id) == Err("No long pulse sweeps for cell %s", cell_id)
LongSquareQcError(cell_id) == Err("No long square sweeps passed qc for cell %s", cell_id)

\* The loop over the recordings: the state (min_pulse_dur, sweep_list) after
\* the recordings recs, started from the given state.
RECURSIVE LongSquareLoop(_, _, _)
LongSquareLoop(recs, min_pulse_dur, sweep_list) ==
  IF recs = <<>>
    THEN [min_pulse_dur |-> min_pulse_dur, sweep_list |-> sweep_list]
    ELSE
      LET rec == Head(recs)
          pulse_times == get_pulse_times(rec)
      IN IF pulse_times = NoPulse
           THEN LongSquareLoop(Tail(recs), min_pulse_dur, sweep_list)
           ELSE
             LET start == pulse_times[1]
                 end == pulse_times[2]
                 dur == Min(min_pulse_dur, end - start)
                 sweep == MPSweep(rec, -start)
             IN LongSquareLoop(Tail(recs), dur,
                  IF sweep # None THEN Append(sweep_list, sweep) ELSE sweep_list)

\* the library failures that the try around lsa.analyze catches
LongSquareCaught(lib) == lib \in {"analyze_FeatureError", "analyze_Exception"}

get_long_square_features(recordings, cell_id, lib) ==
  IF NoRecordings(recordings)
    THEN Outcome({}, <<Err("No long pulse sweeps for cell %s", cell_id)>>,
                 FALSE, <<>>, NoWindow, NotCalled)
    ELSE
      LET loop == LongSquareLoop(recordings, np_inf, <<>>)
          sweep_list == loop.sweep_list
          window == <<0, loop.min_pulse_dur>>
      IN IF Len(sweep_list) = 0
           THEN Outcome({}, <<LongSquareQcError(cell_id)>>,
                        FALSE, sweep_list, NoWindow, NotCalled)
         ELSE IF lib = "extractors"
           THEN Outcome({}, <<>>, TRUE, sweep_list, window, lib)
         ELSE IF LongSquareCaught(lib)
           THEN Outcome({},
                  <<Err("Error running long square analysis for cell %s: %s", cell_id)>>,
                  FALSE, sweep_list, window, lib)
         ELSE IF lib \in {"as_dict", "complete_features", "avg_rate", "output_key"}
           THEN Outcome({}, <<>>, TRUE, sweep_list, window, lib)
         ELSE Outcome(LongSquareKeys, <<>>, FALSE, sweep_list, window, lib)

\* ------------------------------------------------------- get_chirp_features
RECURSIVE ChirpLoop(_, _)
ChirpLoop(recs, sweep_list) ==
  IF recs = <<>>
    THEN sweep_list
    ELSE
      LET sweep == MPSweep(Head(recs), 0)
      IN ChirpLoop(Tail(recs),
           IF sweep # None THEN Append(sweep_list, sweep) ELSE sweep_list)

\* the library failures that the two except clauses of the chirp try catch:
\* the try holds the analysis and the mapping of its output
ChirpCaught_FeatureErrorOnly(lib) == lib = "fft_FeatureError"
ChirpCaught(lib) == lib \in {"fft_FeatureError", "fft_Exception", "output_key"}

get_chirp_features(recordings, cell_id, lib) ==
  IF NoRecordings(recordings)
    THEN Outcome({}, <<Err("No chirp sweeps for cell %s", cell_id)>>,
                 FALSE, <<>>, NoWindow, NotCalled)
    ELSE
      LET sweep_list == ChirpLoop(recordings, <<>>)
      IN IF Len(sweep_list) = 0
           THEN Outcome({}, <<Err("No chirp sweeps passed qc for cell %s", cell_id)>>,
                        FALSE, sweep_list, NoWindow, NotCalled)
         ELSE IF lib = "ok"
           THEN Outcome(ChirpKeys, <<>>, FALSE, sweep_list, NoWindow, lib)
         ELSE IF ChirpCaught(lib)
           THEN Outcome({}, <<Err("Error processing chirps for cell %s: %s", cell_id)>>,
                        FALSE, sweep_list, NoWindow, lib)
         ELSE Outcome({}, <<>>, TRUE, sweep_list, NoWindow, lib)
\* =================================================================== state
VARIABLES
  \* --- one pass through the body of the cell loop (lines 61-69)
  recording_dict, \* get_intrinsic_recording_dict(...): [LP, Chirp]
  lp_ret,         \* what get_long_square_features gave, once called
  chirp_ret,      \* what get_chirp_features gave, once called
  step,           \* position in the loop body
  \* --- one job
  module,         \* the pipeline module whose create_db_entries runs
  expts,          \* the Experiment table: ext_id and acq_timestamp of each
  job_id,         \* job['job_id']
  data,           \* what reading expt.data / expt.data.contents gives
  cells,          \* the recordings of each cell of the job's experiment
  lib,            \* what the library did for each cell, once it was called
  pairs,          \* what get_pair_avg_fits gives for each pair
  session,        \* the rows added to the session, in order
  errors,         \* the error list create_db_entries builds and returns
  pc,             \* position of create_db_entries
  idx,            \* index of the next entity of the loop
  run,            \* 1: first run of the job, 2: the run after drop_jobs
  first           \* the rows as the first run left them

cellvars == <<recording_dict, lp_ret, chirp_ret, step>>
jobvars == <<module, expts, job_id, data, cells, lib, pairs, session, errors,
             pc, idx, run, first>>
vars == <<recording_dict, lp_ret, chirp_ret, step, module, expts, job_id, data,
          cells, lib, pairs, session, errors, pc, idx, run, first>>

\* an extractor that has not been called
NoRet == Outcome({}, <<>>, FALSE, <<>>, NoWindow, "no call")
\* cell.id of the cell whose loop body is followed on its own
TheCell == 1

\* ------------------------------------------------ the body of the cell loop
\* lines 63-64
LongSquareStep ==
  /\ step = "lp"
  /\ \E l \in LibLS :
       LET r == get_long_square_features(recording_dict.LP, TheCell, l)
       IN /\ lp_ret' = r
          /\ step' = IF r.raised THEN "raised" ELSE "chirp"
  /\ UNCHANGED <<recording_dict, chirp_ret>>
  /\ UNCHANGED jobvars

\* lines 65-66
ChirpStep ==
  /\ step = "chirp"
  /\ \E l \in LibChirp :
       LET r == get_chirp_features(recording_dict.Chirp, TheCell, l)
       IN /\ chirp_ret' = r
          /\ step' = IF r.raised THEN "raised" ELSE "done"
  /\ UNCHANGED <<recording_dict, lp_ret>>
  /\ UNCHANGED jobvars

\* ------------------------------------------------------------ the database
Expts == {1, 2}
\* the experiment a job is run for, and the other one
JobExpt == 1
OtherExpt == 2
IdValues == {1, 2, 3}

\* Experiment.cell_list / Experiment.pair_list: the other experiment owns
\* the cell and the pair numbered 0
cell_list(e) == IF e = JobExpt THEN [i \in 1..NCells |-> i] ELSE <<0>>
pair_list(e) == IF e = JobExpt THEN [i \in 1..NPairs |-> i] ELSE <<0>>
Range(f) == {f[i] : i \in DOMAIN f}

\* db.experiment_from_ext_id(job_id)
experiment_from_ext_id(id) == CHOOSE e \in Expts : expts[e].ext_id = id
\* db.experiment_from_timestamp(expt_id)
experiment_from_timestamp(ts) == CHOOSE e \in Expts : expts[e].acq_timestamp = ts

IntrinsicRow(cell_id, fields) ==
  [table |-> "Intrinsic", owner |-> cell_id, cond |-> "", fields |-> fields]
FitKeys ==
  {"nrmse", "initial_xoffset", "manual_qc_pass", "fit_xoffset", "fit_yoffset",
   "fit_amp", "fit_rise_time", "fit_decay_tau", "fit_exp_amp", "fit_exp_tau"}
AvgResponseFitRow(pair_id, cond) ==
  [table |-> "AvgResponseFit", owner |-> pair_id, cond |-> cond, fields |-> FitKeys]

\* seq without the rows that are in the set rows, order kept
RECURSIVE Without(_, _)
Without(seq, rows) ==
  IF seq = <<>> THEN <<>>
  ELSE IF Head(seq) \in rows THEN Without(Tail(seq), rows)
  ELSE <<Head(seq)>> \o Without(Tail(seq), rows)

\* IntrinsicPipelineModule.job_records
IntrinsicJobRecords(job_ids) ==
  {r \in Range(session) :
     /\ r.table = "Intrinsic"
     /\ \E e \in Expts : /\ r.owner \in Range(cell_list(e))
                         /\ expts[e].ext_id \in job_ids}

\* AvgResponseFitPipelineModule.job_records
AvgResponseFitJobRecords(job_ids) ==
  {r \in Range(session) :
     /\ r.table = "AvgResponseFit"
     /\ \E e \in Expts : /\ r.owner \in Range(pair_list(e))
                         /\ expts[e].ext_id \in job_ids}

job_records(job_ids) ==
  IF module = "intrinsic" THEN IntrinsicJobRecords(job_ids)
  ELSE AvgResponseFitJobRecords(job_ids)
\* ------------------------------------------------------------ job inputs
DataStates == {"ok", "data is None", "contents is None", "raises"}
Unset == [ls |-> "unset", chirp |-> "unset"]
CellInputs(n) == [LP : SeqsUpTo(Recordings, n), Chirp : SeqsUpTo(ChirpRecordings, n)]
\* the recordings of the cells of a job: one pulse window
JobRecordings == [pulse_times : {NoPulse, <<1, 2>>}, has_holding : BOOLEAN]
JobCellInputs(n) ==
  [LP : SeqsUpTo(JobRecordings, n), Chirp : SeqsUpTo(ChirpRecordings, n)]
NoRecordingsAtAll == [LP |-> <<>>, Chirp |-> <<>>]

\* get_pair_avg_fits(pair, ...): the conditions of the returned dict, in its
\* order, or the way the pair's processing fails: the call raises, or the
\* last fit of the dict lacks a key the loop body reads.
Conds == {"ic", "vc"}
PairFits ==
  {[fits |-> f, fail |-> "none"] : f \in {<<>>, <<"ic">>, <<"vc">>, <<"ic", "vc">>}}
  \cup {[fits |-> <<>>, fail |-> "get_pair_avg_fits"]}
  \cup {[fits |-> f, fail |-> "fit_key"] : f \in {<<"ic">>, <<"vc">>, <<"ic", "vc">>}}
NoFits == [fits |-> <<>>, fail |-> "none"]

\* ------------------------------------- IntrinsicPipelineModule.create_db_entries
\* lines 44-58: look the experiment up, test its data, start the loop
IntrinsicBegin ==
  /\ pc = "start"
  /\ module = "intrinsic"
  /\ experiment_from_ext_id(job_id) \in Expts
  /\ IF data # "ok"
       THEN /\ errors' = <<[msg |-> "No NWB data for this experiment"]>>
            /\ pc' = "returned"
       ELSE /\ errors' = <<>>
            /\ pc' = "loop"
  /\ idx' = 1
  /\ UNCHANGED <<module, expts, job_id, data, cells, lib, pairs, session, run, first>>
  /\ UNCHANGED cellvars

\* What one pass of the loop body does for a cell, the library doing ls and
\* then ch: lines 60-69.
CellBody(c, ls, ch) ==
  LET lp == get_long_square_features(cells[c].LP, c, ls)
      chirp == get_chirp_features(cells[c].Chirp, c, ch)
  IN IF lp.raised
       THEN [raised |-> TRUE, errors |-> <<>>, rows |-> <<>>,
             lib |-> [ls |-> lp.lib, chirp |-> NotCalled]]
     ELSE IF chirp.raised
       THEN [raised |-> TRUE, errors |-> lp.errors, rows |-> <<>>,
             lib |-> [ls |-> lp.lib, chirp |-> chirp.lib]]
     ELSE [raised |-> FALSE, errors |-> lp.errors \o chirp.errors,
           rows |-> <<IntrinsicRow(c, lp.results \cup chirp.results)>>,
           lib |-> [ls |-> lp.lib, chirp |-> chirp.lib]]

\* one iteration of the loop of lines 59-69
ProcessCell ==
  /\ pc = "loop"
  /\ module = "intrinsic"
  /\ idx <= Len(cell_list(experiment_from_ext_id(job_id)))
  /\ LET c == cell_list(experiment_from_ext_id(job_id))[idx]
     IN \E ls \in LibLS, ch \in LibChirp :
          LET b == CellBody(c, ls, ch)
          IN \* identical inputs: the library does again what it did
             /\ lib[c] = Unset \/ lib[c] = b.lib
             /\ lib' = [lib EXCEPT ![c] = b.lib]
             /\ errors' = errors \o b.errors
             /\ session' = session \o b.rows
             /\ pc' = IF b.raised THEN "raised" ELSE "loop"
             /\ idx' = IF b.raised THEN idx ELSE idx + 1
  /\ UNCHANGED <<module, expts, job_id, data, cells, pairs, run, first>>
  /\ UNCHANGED cellvars

\* line 71
IntrinsicReturn ==
  /\ pc = "loop"
  /\ module = "intrinsic"
  /\ idx > Len(cell_list(experiment_from_ext_id(job_id)))
  /\ pc' = "returned"
  /\ UNCHANGED <<module, expts, job_id, data, cells, lib, pairs, session, errors,
                 idx, run, first>>
  /\ UNCHANGED cellvars

\* ------------------------------- AvgResponseFitPipelineModule.create_db_entries
\* lines 25-29
AvgBegin ==
  /\ pc = "start"
  /\ module = "avg_response_fit"
  /\ pc' = "loop"
  /\ idx' = 1
  /\ errors' = <<>>
  /\ UNCHANGED <<module, expts, job_id, data, cells, lib, pairs, session, run, first>>
  /\ UNCHANGED cellvars

\* the records of the fits fs of pair p, in order
FitRows(p, fs) == [i \in 1..Len(fs) |-> AvgResponseFitRow(p, fs[i])]

\* one iteration of the loop of lines 31-44
ProcessPair ==
  /\ pc = "loop"
  /\ module = "avg_response_fit"
  /\ idx <= Len(pair_list(experiment_from_timestamp(job_id)))
  /\ LET p == pair_list(experiment_from_timestamp(job_id))[idx]
         f == pairs[p]
     IN IF f.fail = "get_pair_avg_fits"
          THEN /\ pc' = "raised"
               /\ UNCHANGED <<session, idx>>
        ELSE IF f.fail = "fit_key"
          THEN /\ pc' = "raised"
               /\ session' = session \o FitRows(p, SubSeq(f.fits, 1, Len(f.fits) - 1))
               /\ UNCHANGED idx
        ELSE /\ session' = session \o FitRows(p, f.fits)
             /\ idx' = idx + 1
             /\ UNCHANGED pc
  /\ UNCHANGED <<module, expts, job_id, data, cells, lib, pairs, errors, run, first>>
  /\ UNCHANGED cellvars

\* the end of the loop: the method returns None
AvgReturn ==
  /\ pc = "loop"
  /\ module = "avg_response_fit"
  /\ idx > Len(pair_list(experiment_from_timestamp(job_id)))
  /\ pc' = "returned"
  /\ UNCHANGED <<module, expts, job_id, data, cells, lib, pairs, session, errors,
                 idx, run, first>>
  /\ UNCHANGED cellvars

\* ------------------------------------------------------------ reprocessing
\* drop_jobs deletes the rows job_records gives for the job, and the job is
\* run again on the same inputs
DropJob ==
  /\ pc \in {"returned", "raised"}
  /\ run = 1
  /\ first' = session
  /\ session' = Without(session, job_records({job_id}))
  /\ run' = 2
  /\ pc' = "start"
  /\ idx' = 1
  /\ errors' = <<>>
  /\ UNCHANGED <<module, expts, job_id, data, cells, lib, pairs>>
  /\ UNCHANGED cellvars

\* ------------------------------------------------------------ specifications
\* rows of the other experiment, written by an earlier job
EarlierRows == <<IntrinsicRow(0, {}), AvgResponseFitRow(0, "ic")>>

DistinctIds(t) ==
  /\ t[1].ext_id # t[2].ext_id
  /\ t[1].acq_timestamp # t[2].acq_timestamp

IdleCell ==
  /\ recording_dict = NoRecordingsAtAll
  /\ lp_ret = NoRet
  /\ chirp_ret = NoRet
  /\ step = "idle"

IdleJob ==
  /\ module = "intrinsic"
  /\ expts = [e \in Expts |-> [ext_id |-> e, acq_timestamp |-> e]]
  /\ job_id = 1
  /\ data = "ok"
  /\ cells = [c \in 1..NCells |-> NoRecordingsAtAll]
  /\ lib = [c \in 1..NCells |-> Unset]
  /\ pairs = [p \in 1..NPairs |-> NoFits]
  /\ session = EarlierRows
  /\ errors = <<>>
  /\ pc = "idle"
  /\ idx = 1
  /\ run = 1
  /\ first = <<>>

Init ==
  /\ IdleCell
  /\ module \in {"intrinsic", "avg_response_fit"}
  /\ expts \in [Expts -> [ext_id : IdValues, acq_timestamp : IdValues]]
  /\ DistinctIds(expts)
  /\ IF module = "intrinsic"
       THEN \* the module reads ext_id alone, and only to tell experiments apart
            /\ \A e \in Expts : expts[e] = [ext_id |-> e, acq_timestamp |-> e]
            /\ job_id = expts[JobExpt].ext_id
            /\ data \in DataStates
            /\ cells \in [1..NCells -> JobCellInputs(MaxJobRecs)]
            /\ pairs = [p \in 1..NPairs |-> NoFits]
       ELSE \* the job is found by its timestamp; the module reads no recording
            /\ job_id = expts[JobExpt].acq_timestamp
            /\ data = "ok"
            /\ cells = [c \in 1..NCells |-> NoRecordingsAtAll]
            /\ pairs \in [1..NPairs -> PairFits]
  /\ lib = [c \in 1..NCells |-> Unset]
  /\ session = EarlierRows
  /\ errors = <<>>
  /\ pc = "start"
  /\ idx = 1
  /\ run = 1
  /\ first = <<>>

Next ==
  \/ IntrinsicBegin
  \/ ProcessCell
  \/ IntrinsicReturn
  \/ AvgBegin
  \/ ProcessPair
  \/ AvgReturn
  \/ DropJob

Spec == Init /\ [][Next]_vars

\* One cell on its own: every recording list up to MaxRecs per protocol.
InitCell ==
  /\ IdleJob
  /\ recording_dict \in CellInputs(MaxRecs)
  /\ lp_ret = NoRet
  /\ chirp_ret = NoRet
  /\ step = "lp"

NextCell ==
  \/ LongSquareStep
  \/ ChirpStep

SpecCell == InitCell /\ [][NextCell]_vars
\* ================================================================== claims
LpCalled == lp_ret.lib # "no call"
ChirpCalled == chirp_ret.lib # "no call"
\* the returned pair is ({}, [one error])
EmptyWithOneError(r) == ~r.raised /\ r.results = {} /\ Len(r.errors) = 1
LacksHolding(rec) == ~rec.has_holding
LacksPulse(rec) == rec.pulse_times = NoPulse
AllLackHolding(recs) == \A i \in 1..Len(recs) : LacksHolding(recs[i])
AllLackPulse(recs) == \A i \in 1..Len(recs) : LacksPulse(recs[i])

\* C3: once get_long_square_features has a non-empty sweep set, a failure of
\* the library at any step (building the extractors, the analysis, as_dict,
\* the complete feature set, the mean firing rate, reading the output) never
\* leaves the call as an exception: the call returns an empty mapping and
\* exactly one error.
C3_LongSquareNeverRaises ==
  (LpCalled /\ Len(lp_ret.sweep_list) > 0 /\ lp_ret.lib # "ok")
    => EmptyWithOneError(lp_ret)

\* C4: a recording without a 'holding current' item is never a member of the
\* sweep list of either extractor, and when a protocol has recordings that
\* all lack the item, the extractor returns ({}, [one error mentioning
\* "passed qc"]) and calls no analysis.
C4_NoHoldingSkipped ==
  /\ LpCalled =>
       /\ \A i \in 1..Len(lp_ret.sweep_list) : lp_ret.sweep_list[i].rec.has_holding
       /\ (recording_dict.LP # <<>> /\ AllLackHolding(recording_dict.LP))
            => /\ EmptyWithOneError(lp_ret)
               /\ MentionsPassedQc(lp_ret.errors[1])
               /\ lp_ret.lib = NotCalled
  /\ ChirpCalled =>
       /\ \A i \in 1..Len(chirp_ret.sweep_list) : chirp_ret.sweep_list[i].rec.has_holding
       /\ (recording_dict.Chirp # <<>> /\ AllLackHolding(recording_dict.Chirp))
            => /\ EmptyWithOneError(chirp_ret)
               /\ MentionsPassedQc(chirp_ret.errors[1])
               /\ chirp_ret.lib = NotCalled

\* C7: when long-square recordings are supplied and every one lacks a pulse
\* window, get_long_square_features skips them all without raising, calls no
\* analysis and returns ({}, [exactly one error mentioning "passed qc"]).
C7_NoPulseWindow ==
  (LpCalled /\ recording_dict.LP # <<>> /\ AllLackPulse(recording_dict.LP))
    => /\ EmptyWithOneError(lp_ret)
       /\ MentionsPassedQc(lp_ret.errors[1])
       /\ lp_ret.errors[1].cell_id = TheCell
       /\ lp_ret.sweep_list = <<>>
       /\ lp_ret.lib = NotCalled

\* C7 witness: two recordings without a pulse window, one of them with a
\* holding-current item, have been through the extractor.
C7_Witness ==
  /\ LpCalled
  /\ Len(recording_dict.LP) >= 2
  /\ AllLackPulse(recording_dict.LP)
  /\ \E i \in 1..Len(recording_dict.LP) : recording_dict.LP[i].has_holding

\* C8: with zero recordings of a protocol the extractor returns an empty
\* mapping and exactly one error naming the protocol and the cell ("No long
\* pulse sweeps" / "No chirp sweeps"), builds no sweep and calls no analysis;
\* and a long-square extraction that ended that way is followed by the chirp
\* extraction of the same cell.
C8_NoRecordings ==
  /\ (LpCalled /\ recording_dict.LP = <<>>)
       => /\ EmptyWithOneError(lp_ret)
          /\ lp_ret.errors[1] = Err("No long pulse sweeps for cell %s", TheCell)
          /\ lp_ret.sweep_list = <<>>
          /\ lp_ret.lib = NotCalled
          /\ step = "chirp" \/ ChirpCalled
  /\ (ChirpCalled /\ recording_dict.Chirp = <<>>)
       => /\ EmptyWithOneError(chirp_ret)
          /\ chirp_ret.errors[1] = Err("No chirp sweeps for cell %s", TheCell)
          /\ chirp_ret.sweep_list = <<>>
          /\ chirp_ret.lib = NotCalled
          /\ step = "done"

\* C8 witness: a cell without long-square recordings whose chirp features
\* were extracted all the same.
C8_Witness ==
  /\ step = "done"
  /\ recording_dict.LP = <<>>
  /\ Len(lp_ret.errors) = 1
  /\ chirp_ret.results = ChirpKeys

\* C9: with a non-empty chirp sweep set no failure of the analysis or of the
\* mapping of its output leaves get_chirp_features: FeatureError, any other
\* exception and a missing output key all give an empty mapping and exactly
\* one error, the same for the two kinds of failure; success gives exactly
\* the six chirp keys and no error.
C9_ChirpFailurePolicy ==
  (ChirpCalled /\ Len(chirp_ret.sweep_list) > 0)
    => /\ ~chirp_ret.raised
       /\ chirp_ret.lib = "ok" =>
            chirp_ret.results = ChirpKeys /\ chirp_ret.errors = <<>>
       /\ chirp_ret.lib # "ok" =>
            /\ EmptyWithOneError(chirp_ret)
            /\ chirp_ret.errors[1].cell_id = TheCell
       /\ LET a == get_chirp_features(recording_dict.Chirp, TheCell, "fft_FeatureError")
              b == get_chirp_features(recording_dict.Chirp, TheCell, "fft_Exception")
          IN a.results = b.results /\ a.errors = b.errors /\ a.raised = b.raised

\* C9 witness: the analysis ran on a non-empty sweep set and its output
\* lacked a key.
C9_Witness ==
  /\ ChirpCalled
  /\ Len(chirp_ret.sweep_list) > 0
  /\ chirp_ret.lib = "output_key"
  /\ EmptyWithOneError(chirp_ret)

\* the recordings of a list that the selection is said to skip
Skipped(rec) == LacksPulse(rec) \/ LacksHolding(rec)
Duration(rec) == rec.pulse_times[2] - rec.pulse_times[1]

\* C10: when the long-square analysis is set up its window is [0, d] with d
\* finite and equal to the smallest pulse duration of the member sweeps; a
\* skipped recording (no pulse window, or not usable by the sweep adapter)
\* does not contribute to d; every member sweep is shifted so that its pulse
\* onset is at time 0.
C10_AnalysisWindow ==
  (LpCalled /\ lp_ret.window # NoWindow)
    => LET d == lp_ret.window[2]
           members == lp_ret.sweep_list
           kept == {i \in 1..Len(recording_dict.LP) : ~Skipped(recording_dict.LP[i])}
       IN /\ lp_ret.window[1] = 0
          /\ d < np_inf
          /\ \A i \in 1..Len(members) : d <= Duration(members[i].rec)
          /\ \E i \in 1..Len(members) : d = Duration(members[i].rec)
          /\ \A i \in 1..Len(members) :
               members[i].initialized /\ PulseOnset(members[i]) = 0
          /\ kept # {}
          /\ \A i \in kept : d <= Duration(recording_dict.LP[i])
          /\ \E i \in kept : d = Duration(recording_dict.LP[i])
\* ------------------------------------------------------------ job claims
JobEnded == pc \in {"returned", "raised"}
JobCells == Range(cell_list(JobExpt))
JobPairs == Range(pair_list(JobExpt))
RowsOf(table, owner) ==
  {i \in 1..Len(session) : session[i].table = table /\ session[i].owner = owner}

\* the errors of the cells 1..n, in cell order, each cell's long-square
\* errors before its chirp errors
RECURSIVE CellErrors(_)
CellErrors(n) ==
  IF n = 0 THEN <<>>
  ELSE CellErrors(n - 1)
       \o get_long_square_features(cells[n].LP, n, lib[n].ls).errors
       \o get_chirp_features(cells[n].Chirp, n, lib[n].chirp).errors

\* C1: with NWB data present, a finished intrinsic job has added exactly one
\* Intrinsic record per cell whatever the extractions of the cell did, and
\* its error list is the concatenation in cell order of each cell's
\* long-square and chirp errors; a cell without recordings gives two errors
\* and a record with no feature field.
C1_OneRecordPerCell ==
  (module = "intrinsic" /\ data = "ok" /\ JobEnded)
    => /\ pc = "returned"
       /\ \A c \in JobCells : Cardinality(RowsOf("Intrinsic", c)) = 1
       /\ errors = CellErrors(NCells)
       /\ \A c \in JobCells :
            cells[c] = NoRecordingsAtAll
              => \E i \in RowsOf("Intrinsic", c) : session[i].fields = {}

\* C2: in both job runners no exception leaves the processing of an entity:
\* the job ends by returning, having been through every cell or pair, with
\* each failure turned into an error of the job's list.
C2_NoExceptionEscapes ==
  (JobEnded /\ data = "ok")
    => /\ pc = "returned"
       /\ module = "intrinsic" =>
            \A c \in JobCells : RowsOf("Intrinsic", c) # {}
       /\ module = "avg_response_fit" =>
            /\ idx > NPairs
            /\ \A p \in JobPairs : pairs[p].fail # "none" => Len(errors) > 0

\* C5: without usable data the intrinsic job returns exactly one error at
\* once, having processed no cell and added no record; and a job ends before
\* it has been through every cell in that case only.
C5_MissingPrerequisite ==
  module = "intrinsic" =>
    /\ (data # "ok" /\ pc # "start")
         => /\ pc = "returned"
            /\ Len(errors) = 1
            /\ errors[1].msg = "No NWB data for this experiment"
            /\ \A c \in JobCells : RowsOf("Intrinsic", c) = {} /\ lib[c] = Unset
    /\ (JobEnded /\ idx <= NCells) => data # "ok"

\* how often row r is in seq
Count(r, seq) == Cardinality({i \in 1..Len(seq) : seq[i] = r})
SameRows(a, b) == \A r \in Range(a) \cup Range(b) : Count(r, a) = Count(r, b)

\* C6: for both modules, running the job, deleting the rows job_records
\* gives for its id and running it again on the same inputs leaves the rows
\* the first run left: none stale, none twice.
C6_Idempotent ==
  (run = 2 /\ JobEnded) => SameRows(session, first)
====
